---- MODULE Spec2Model ----
(***************************************************************************)
(* Transactional outbox (mickamy/txoutbox): the outbox table, the SQL      *)
(* stores' Add / Claim / Send / Retry / Fail, and the relay's Run loop     *)
(* (processOnce, handleFailure) run by several workers against one table.  *)
(*                                                                         *)
(* Time is an integer wall clock shared by the stores' now(), the relay's  *)
(* Options.Now and the database's NOW(); Tick advances it between any two  *)
(* steps.  A NULL column is Null (timestamps) or NoWorker (claimed_by).    *)
(***************************************************************************)
EXTENDS Integers, Sequences, FiniteSets, TLC

\* ------------------------------------------------------------- bounds
\* Number of ids the table's sequence hands out.
MaxRows == 2
\* Last instant of the wall clock.
MaxTime == 1
\* Instants the wall clock runs on past MaxTime when a single row is followed.
Overtime == 1
\* Width in bits of a time.Duration, counted in milliseconds.
DurationBits == 12

\* ------------------------------------------------------ configuration
\* Options.BatchSize, Options.LeaseTTL, Options.MaxAttempts as a test sets them.
BatchSize == 1
\* Options.BatchSize of the relay whose cycles dispatch more than one envelope.
WideBatch == 2
LeaseTTL == 1
MaxAttempts == 2
\* Exponential(base, factor, max), the relay's Backoff.
BackoffBase == 1
BackoffFactor == 2
BackoffMax == 2

Workers == {"w1", "w2"}
Dialects == {"postgres", "mysql", "sqlite"}
Ids == 1..MaxRows
NoWorker == "none"
Null == -1

VARIABLES
    dialect,    \* which SQL store the workers share
    clock,      \* wall time
    nextId,     \* the table's id sequence
    vis,        \* per id: "free", "open" (inserted, tx not ended), "committed", "rolledback"
    table,      \* per id: the outbox row
    locks,      \* per id: the worker whose Claim transaction holds the row lock
    pc,         \* per worker: where Run is
    claimNow,   \* per worker: now read by the Claim in progress
    selectNow,  \* per worker: instant its candidate SELECT compared next_retry_at with
    cand,       \* per worker: ids selected FOR UPDATE by the Claim in progress
    batch,      \* per worker: envelopes of the cycle not yet dispatched
    cycleNow,   \* per worker: now snapshot of processOnce
    cancelled,  \* the context passed to Run is cancelled
    runResult,  \* per worker: what Run returned
    sends,      \* per id: number of Sender.Send calls made for it
    excused,    \* per id: a store outcome call failed for it, or its lease expired unrecorded
    added,      \* per id: the Message the producer passed to the Add that inserted it
    batchSize,  \* Options.BatchSize of the relays
    expo,       \* the Backoff under study: its base, factor, max, build and latest calls
    twin,       \* the relay with hooks and the relay without, run on one script
    ev          \* the collaborator calls and hooks of the latest step

vars == <<dialect, clock, nextId, vis, table, locks, pc, claimNow, selectNow, cand,
          batch, cycleNow, cancelled, runResult, sends, excused, added, expo, batchSize,
          twin, ev>>

\* ------------------------------------------------------------ backoff
\* The largest and smallest time.Duration.
MaxDuration == 2^(DurationBits - 1) - 1
MinDuration == -(2^(DurationBits - 1))

\* What a build makes of time.Duration(d) for a float64 d outside the range of
\* a Duration, which the language leaves to the implementation: the amd64
\* instruction answers the smallest Duration, the arm64 one saturates.
Builds == {"amd64", "arm64"}

\* time.Duration(d) of a float64 d holding a whole number.
ToDuration(d, build) ==
    IF d >= MinDuration /\ d <= MaxDuration THEN d
    ELSE IF build = "amd64" THEN MinDuration
    ELSE IF d > MaxDuration THEN MaxDuration
    ELSE MinDuration

\* d *= factor on a float64 holding a whole number, for a factor >= 1.  A
\* product past the largest Duration is not multiplied further: it stays past
\* it, which is all that time.Duration(d) tells apart.
Times(d, factor) == IF d > MaxDuration THEN d ELSE d * factor

RECURSIVE ExpLoop(_, _, _, _, _, _)
\* for i := 1; i < attempt; i++ { d *= factor; if time.Duration(d) >= max { return max } }
ExpLoop(d, i, attempt, factor, max, build) ==
    IF i >= attempt THEN
        [capped |-> FALSE, d |-> d]
    ELSE IF ToDuration(Times(d, factor), build) >= max THEN
        [capped |-> TRUE, d |-> max]
    ELSE
        ExpLoop(Times(d, factor), i + 1, attempt, factor, max, build)

\* A backoff whose loop starts at i := 0, so that the first attempt is already
\* multiplied.
ExponentialFromZero(base, factor, max, build, attempt) ==
    IF attempt <= 0 THEN
        base
    ELSE
        LET r == ExpLoop(base, 0, attempt, factor, max, build)
            delay == ToDuration(r.d, build)
        IN
        IF r.capped THEN max
        ELSE IF delay > max THEN max
        ELSE IF delay < base THEN base
        ELSE delay

\* The Backoff that Exponential(base, factor, max) returns, applied to attempt.
Exponential(base, factor, max, build, attempt) ==
    IF attempt <= 0 THEN
        base
    ELSE
        LET r == ExpLoop(base, 1, attempt, factor, max, build)
            delay == ToDuration(r.d, build)
        IN
        IF r.capped THEN max
        ELSE IF delay > max THEN max
        ELSE IF delay < base THEN base
        ELSE delay

\* A Backoff closure on a build, with the latest two calls made on it.
BackoffOf(base, factor, max, build) ==
    [base |-> base, factor |-> factor, max |-> max, build |-> build,
     calls |-> 0, attempt |-> 0, delay |-> 0, prevAttempt |-> 0, prevDelay |-> 0]

\* Options.Backoff of the relays.
RelayBackoff == BackoffOf(BackoffBase, BackoffFactor, BackoffMax, "amd64")

\* r.opts.Backoff(attempt) of the relays.
Backoff(attempt) ==
    Exponential(expo.base, expo.factor, expo.max, expo.build, attempt)

\* ------------------------------------------------------------ messages
\* A Go value passed as Message.Body: the nil interface, an int, a string (its
\* characters), a struct{ ID int }, a nil map, or a channel.
GoValue(type, int, str) == [type |-> type, int |-> int, str |-> str]
NilBody == GoValue("nil", 0, <<>>)
IntBody(n) == GoValue("int", n, <<>>)
StringBody(chars) == GoValue("string", 0, chars)
StructBody(n) == GoValue("struct", n, <<>>)
NilMapBody == GoValue("map", 0, <<>>)
ChanBody == GoValue("chan", 0, <<>>)

NoMessage == [topic |-> "", key |-> "", body |-> NilBody]

DigitChars == <<"0", "1", "2", "3", "4", "5", "6", "7", "8", "9">>

RECURSIVE FormatInt(_)
\* The decimal text of a non-negative int.
FormatInt(n) ==
    IF n < 10 THEN <<DigitChars[n + 1]>>
    ELSE FormatInt(n \div 10) \o <<DigitChars[(n % 10) + 1]>>

\* json.Marshal(v): the bytes, or an error for a type JSON cannot carry.
\* Strings here hold letters only, so no character needs an escape.
Marshal(v) ==
    CASE v.type = "int" -> [err |-> FALSE, data |-> FormatInt(v.int)]
      [] v.type = "string" -> [err |-> FALSE, data |-> <<"\"">> \o v.str \o <<"\"">>]
      [] v.type = "struct" ->
            [err |-> FALSE,
             data |-> <<"{", "\"", "I", "D", "\"", ":">> \o FormatInt(v.int) \o <<"}">>]
      [] v.type \in {"map", "nil"} -> [err |-> FALSE, data |-> <<"n", "u", "l", "l">>]
      [] OTHER -> [err |-> TRUE, data |-> <<>>]

\* A validate that asks for the topic only.
validateTopicOnly(m) == IF m.topic = "" THEN "txoutbox: topic is required" ELSE ""

\* Message.validate: the error, "" for none.
validate(m) ==
    IF m.topic = "" THEN "txoutbox: topic is required"
    ELSE IF m.body = NilBody THEN "txoutbox: body is required"
    ELSE ""

\* Message.MarshalPayload: validate, then json.Marshal(m.Body).
MarshalPayload(m) ==
    IF validate(m) # "" THEN [err |-> validate(m), payload |-> <<>>]
    ELSE IF Marshal(m.body).err THEN [err |-> "failed to marshal payload", payload |-> <<>>]
    ELSE [err |-> "", payload |-> Marshal(m.body).data]

RECURSIVE Render(_, _)
\* A JSON document as a JSONB or JSON column gives it back: one space after
\* each ':' and ',' that stands outside a string.
Render(data, inString) ==
    IF data = <<>> THEN <<>>
    ELSE LET c == Head(data) IN
         IF c = "\"" THEN <<c>> \o Render(Tail(data), ~inString)
         ELSE IF ~inString /\ c \in {":", ","} THEN <<c, " ">> \o Render(Tail(data), inString)
         ELSE <<c>> \o Render(Tail(data), inString)

\* payload JSONB (Postgres), payload JSON (MySQL), payload BLOB (SQLite): what
\* a SELECT of the column answers for the bytes an INSERT stored.
PayloadColumn(d, data) == IF d = "sqlite" THEN data ELSE Render(data, FALSE)

\* Add's key argument: a string, or NULL for the empty key.
KeyColumn(key) ==
    IF key # "" THEN [valid |-> TRUE, string |-> key]
    ELSE [valid |-> FALSE, string |-> ""]

\* sqlutil.NullableString: sql.NullString to *string, nil as <<>>.
NullableString(ns) == IF ns.valid THEN <<ns.string>> ELSE <<>>

RECURSIVE Compact(_, _)
\* The tokens of a JSON text: the decoder skips white space between them.
Compact(data, inString) ==
    IF data = <<>> THEN <<>>
    ELSE LET c == Head(data) IN
         IF c = "\"" THEN <<c>> \o Compact(Tail(data), ~inString)
         ELSE IF ~inString /\ c = " " THEN Compact(Tail(data), inString)
         ELSE <<c>> \o Compact(Tail(data), inString)

IsDigits(s) == Len(s) > 0 /\ \A i \in 1..Len(s) : \E d \in 1..10 : DigitChars[d] = s[i]

RECURSIVE ParseInt(_, _)
\* The int a digit string denotes, most significant digit first.
ParseInt(s, acc) ==
    IF s = <<>> THEN acc
    ELSE ParseInt(Tail(s),
                  acc * 10 + (CHOOSE d \in 0..9 : DigitChars[d + 1] = Head(s)))

\* json.Unmarshal(data, dest) into a dest of the given Go type.
UnmarshalTokens(t, type) ==
    LET bad == [err |-> TRUE, value |-> NilBody]
        n == Len(t)
    IN
    CASE type = "int" ->
            IF IsDigits(t) THEN [err |-> FALSE, value |-> IntBody(ParseInt(t, 0))] ELSE bad
      [] type = "string" ->
            IF n >= 2 /\ t[1] = "\"" /\ t[n] = "\""
            THEN [err |-> FALSE, value |-> StringBody(SubSeq(t, 2, n - 1))] ELSE bad
      [] type = "struct" ->
            IF /\ n >= 8
               /\ SubSeq(t, 1, 6) = <<"{", "\"", "I", "D", "\"", ":">>
               /\ t[n] = "}"
               /\ IsDigits(SubSeq(t, 7, n - 1))
            THEN [err |-> FALSE, value |-> StructBody(ParseInt(SubSeq(t, 7, n - 1), 0))]
            ELSE bad
      [] type = "map" ->
            IF t = <<"n", "u", "l", "l">> THEN [err |-> FALSE, value |-> NilMapBody] ELSE bad
      [] OTHER -> bad

\* A decoder that takes white space between tokens for a syntax error.
UnmarshalNoSkip(data, type) == UnmarshalTokens(data, type)

Unmarshal(data, type) == UnmarshalTokens(Compact(data, FALSE), type)

\* Envelope.Decode(dest): json.Unmarshal(e.Payload, dest).
Decode(e, type) == Unmarshal(e.payload, type)

\* ------------------------------------------------------------ the row
\* INSERT INTO txoutbox (topic, key, payload): the column defaults.
NewRow(topic, key, payload, now) ==
    [topic |-> topic, key |-> key, payload |-> payload,
     status |-> "pending", retry_count |-> 0, next_retry_at |-> now,
     claimed_by |-> NoWorker, claimed_at |-> Null, created_at |-> now,
     sent_at |-> Null]

\* A slot of the table no INSERT has filled.
NoRow ==
    [topic |-> "", key |-> KeyColumn(""), payload |-> <<>>,
     status |-> "none", retry_count |-> 0, next_retry_at |-> 0,
     claimed_by |-> NoWorker, claimed_at |-> Null, created_at |-> Null,
     sent_at |-> Null]

\* A Claim whose UPDATE also resets retry_count.
MarkSendingResetCount(row, workerID, now, leaseUntil) ==
    [row EXCEPT !.status = "sending", !.claimed_by = workerID,
                !.claimed_at = now, !.next_retry_at = leaseUntil,
                !.retry_count = 0]

\* SET status = 'sending', claimed_by, claimed_at, next_retry_at
MarkSending(row, workerID, now, leaseUntil) ==
    [row EXCEPT !.status = "sending", !.claimed_by = workerID,
                !.claimed_at = now, !.next_retry_at = leaseUntil]

\* Store.Send that leaves the claim columns as they were.
MarkSentKeepClaim(row, sendAt) ==
    [row EXCEPT !.status = "sent", !.sent_at = sendAt]

\* SET status = 'sent', sent_at, claimed_by = NULL, claimed_at = NULL
MarkSent(row, sendAt) ==
    [row EXCEPT !.status = "sent", !.sent_at = sendAt,
                !.claimed_by = NoWorker, !.claimed_at = Null]

\* Store.Retry that releases the row without clearing the claim columns.
MarkRetryKeepClaim(row, retryCount, nextRetry) ==
    [row EXCEPT !.status = "retry", !.retry_count = retryCount,
                !.next_retry_at = nextRetry]

\* SET status = 'retry', retry_count, next_retry_at, claimed_by = NULL, claimed_at = NULL
MarkRetry(row, retryCount, nextRetry) ==
    [row EXCEPT !.status = "retry", !.retry_count = retryCount,
                !.next_retry_at = nextRetry,
                !.claimed_by = NoWorker, !.claimed_at = Null]

\* A Store.Fail whose UPDATE has AND status = 'sending' in its WHERE clause.
MarkFailedWhileSending(row, retryCount) ==
    IF row.status = "sending"
    THEN [row EXCEPT !.status = "failed", !.retry_count = retryCount,
                     !.claimed_by = NoWorker, !.claimed_at = Null]
    ELSE row

\* SET status = 'failed', retry_count, claimed_by = NULL, claimed_at = NULL
MarkFailed(row, retryCount) ==
    [row EXCEPT !.status = "failed", !.retry_count = retryCount,
                !.claimed_by = NoWorker, !.claimed_at = Null]

\* A dirty read: the insert of a transaction still open is seen.
VisibleUncommitted(id) == vis[id] \in {"open", "committed"}

\* A row another transaction can see: the business transaction committed.
Visible(id) == vis[id] = "committed"

\* The WHERE clause without 'sending': an expired lease is never taken over.
EligibleNoSending(id, now) ==
    /\ vis[id] = "committed"
    /\ table[id].status \in {"pending", "retry"}
    /\ table[id].next_retry_at <= now

\* A WHERE clause that passes over every row that carries a claim: a lease,
\* once written, is never taken over.
EligibleUnclaimed(id, now) ==
    /\ vis[id] = "committed"
    /\ table[id].status \in {"pending", "retry", "sending"}
    /\ table[id].claimed_by = NoWorker
    /\ table[id].next_retry_at <= now

\* The WHERE clause without next_retry_at <= now.
EligibleAnyTime(id, now) ==
    /\ vis[id] = "committed"
    /\ table[id].status \in {"pending", "retry", "sending"}

\* WHERE status IN ('pending','retry','sending') AND next_retry_at <= now
Eligible(id, now) ==
    /\ Visible(id)
    /\ table[id].status \in {"pending", "retry", "sending"}
    /\ table[id].next_retry_at <= now

\* The candidate SELECT without FOR UPDATE SKIP LOCKED: no row is passed over.
LockableNoSkip(id) == TRUE

\* FOR UPDATE SKIP LOCKED: a row locked by another transaction is passed over.
Lockable(id) == locks[id] = NoWorker

\* ORDER BY id LIMIT limit, over the rows the statement may take.
FirstN(S, limit) == {id \in S : Cardinality({j \in S : j < id}) < limit}

\* LIMIT counted over the eligible rows before the locked ones are passed over.
CandidatesLimitFirst(now, limit) ==
    {id \in FirstN({j \in Ids : Eligible(j, now)}, limit) : Lockable(id)}

\* The candidate SELECT: the first limit rows, by id, among the eligible rows
\* that no other transaction has locked.
Candidates(now, limit) ==
    FirstN({id \in Ids : Eligible(id, now) /\ Lockable(id)}, limit)

\* The instant the candidate SELECT compares next_retry_at with: the store's
\* now (Postgres, SQLite: a bind parameter) or the server's NOW(6) (MySQL).
EligibilityInstant(w) ==
    IF dialect = "mysql" THEN clock ELSE claimNow[w]

RECURSIVE AscendingIds(_)
\* ORDER BY id: the ids of S, smallest first.
AscendingIds(S) ==
    IF S = {} THEN <<>>
    ELSE LET m == CHOOSE x \in S : \A y \in S : x <= y
         IN <<m>> \o AscendingIds(S \ {m})

\* The Envelope scanned from a returned row.
EnvelopeOf(id) ==
    [id |-> id, topic |-> table[id].topic, key |-> NullableString(table[id].key),
     payload |-> table[id].payload, retry_count |-> table[id].retry_count]

\* The orders in which the rows S can come back from UPDATE ... RETURNING
\* (Postgres, SQLite) or SELECT ... WHERE id IN (...) (MySQL): the statement
\* has no ORDER BY, so the database is free to answer them in any order.
ResultOrders(S) ==
    {order \in [1..Cardinality(S) -> S] :
        \A i \in 1..Cardinality(S), j \in 1..Cardinality(S) :
            i # j => order[i] # order[j]}

\* The rows of a Claim's result set, as envelopes, in the order they came back.
Returning(order) == [i \in 1..Len(order) |-> EnvelopeOf(order[i])]

\* What a step did: the calls it made on Sender and Store, their arguments and
\* results, the hooks it emitted, and the error it returned.
NoEvent ==
    [kind |-> "none", w |-> NoWorker, ids |-> {}, now |-> Null, id |-> 0,
     sendOk |-> FALSE, storeOp |-> "none", storeOk |-> FALSE,
     retryCount |-> 0, at |-> Null, hooks |-> <<>>, ran |-> FALSE, err |-> FALSE,
     msg |-> NoMessage, error |-> "", backoffArg |-> Null, delay |-> Null,
     errOp |-> "none", errId |-> 0, requested |-> 0, claimed |-> 0,
     was |-> "none"]

Event(kind) == [NoEvent EXCEPT !.kind = kind]

\* No script is being run.
NoTwin == [script |-> <<>>]

\* ---------------------------------------------------------------- Init
Init ==
    /\ dialect \in Dialects
    /\ clock = 0
    /\ nextId = 1
    /\ vis = [id \in Ids |-> "free"]
    /\ table = [id \in Ids |-> NoRow]
    /\ locks = [id \in Ids |-> NoWorker]
    /\ pc = [w \in Workers |-> "start"]
    /\ claimNow = [w \in Workers |-> 0]
    /\ selectNow = [w \in Workers |-> 0]
    /\ cand = [w \in Workers |-> {}]
    /\ batch = [w \in Workers |-> <<>>]
    /\ cycleNow = [w \in Workers |-> 0]
    /\ cancelled = FALSE
    /\ runResult = [w \in Workers |-> "running"]
    /\ sends = [id \in Ids |-> 0]
    /\ excused = [id \in Ids |-> FALSE]
    /\ added = [id \in Ids |-> NoMessage]
    /\ expo = RelayBackoff
    /\ batchSize = BatchSize
    /\ twin = NoTwin
    /\ ev = NoEvent

\* ------------------------------------------------------------ producer
\* Store.Add(ctx, exec, msg) on the caller's transaction.  MarshalPayload runs
\* first and its error is returned before any statement; else the INSERT runs
\* and the row exists, uncommitted.  The producer runs one business
\* transaction at a time, and stops when the table's ids are used up.
AddMessage(msg) ==
    LET r == MarshalPayload(msg) IN
    /\ nextId <= MaxRows
    /\ \A id \in Ids : vis[id] # "open"
    /\ IF r.err # "" THEN
            /\ ev' = [Event("add") EXCEPT !.msg = msg, !.err = TRUE, !.error = r.err]
            /\ UNCHANGED <<nextId, vis, table, added>>
       ELSE
            /\ vis' = [vis EXCEPT ![nextId] = "open"]
            /\ table' = [table EXCEPT ![nextId] =
                            NewRow(msg.topic, KeyColumn(msg.key),
                                   PayloadColumn(dialect, r.payload), clock)]
            /\ nextId' = nextId + 1
            /\ added' = [added EXCEPT ![nextId] = msg]
            /\ ev' = [Event("add") EXCEPT !.msg = msg, !.id = nextId]
    /\ UNCHANGED <<dialect, twin, expo, batchSize, clock, locks, pc, claimNow, selectNow, cand, batch,
                   cycleNow, cancelled, runResult, sends, excused>>

\* The message of the producers whose rows the relays are followed on.
SampleMessage == [topic |-> "example.event", key |-> "demo", body |-> StructBody(42)]

Add == AddMessage(SampleMessage)

\* tx.Commit() of the business transaction.
Commit(id) ==
    /\ vis[id] = "open"
    /\ vis' = [vis EXCEPT ![id] = "committed"]
    /\ ev' = NoEvent
    /\ UNCHANGED <<dialect, twin, expo, batchSize, added, clock, nextId, table, locks, pc, claimNow, selectNow,
                   cand, batch, cycleNow, cancelled, runResult, sends, excused>>

\* tx.Rollback() of the business transaction: the insert is undone.
Rollback(id) ==
    /\ vis[id] = "open"
    /\ vis' = [vis EXCEPT ![id] = "rolledback"]
    /\ table' = [table EXCEPT ![id] = NoRow]
    /\ ev' = NoEvent
    /\ UNCHANGED <<dialect, twin, expo, batchSize, added, clock, nextId, locks, pc, claimNow, selectNow, cand,
                   batch, cycleNow, cancelled, runResult, sends, excused>>

\* --------------------------------------------------------------- Run
\* A store call that ignores the context it is given.
CtxIgnored(ok) == TRUE

\* db.ExecContext(ctx, ...), db.QueryContext(ctx, ...), db.BeginTx(ctx, ...):
\* the relay hands the context of Run to every store call, and a statement
\* under a context that is already cancelled is not run and answers ctx.Err().
CtxAllows(ok) == ok => ~cancelled

\* The error of a store call that did not succeed.
StoreErr(ok) ==
    IF ok THEN "" ELSE IF cancelled THEN "context canceled" ELSE "store error"

\* Run that returns the error of processOnce instead of logging it.
AfterCycleReturnErr(err) == IF err THEN "returned" ELSE "select"

\* Run after processOnce returned err: it logs and waits in its select.
AfterCycle(err) == "select"

\* Run waits in its select and the ticker delivers on ticker.C.  A tick that
\* fires while processOnce runs stays in the channel's buffer of one and is
\* received as soon as Run reaches the select, which is the same step here.
PollTick(w) ==
    /\ pc[w] = "select"
    /\ pc' = [pc EXCEPT ![w] = "ticked"]
    /\ ev' = NoEvent
    /\ UNCHANGED <<dialect, twin, expo, batchSize, added, clock, nextId, vis, table, locks, claimNow, selectNow, cand,
                   batch, cycleNow, cancelled, runResult, sends, excused>>

\* A Run that does not wait for its ticker.
RunBusyLoop == {"start", "select", "ticked"}

\* Run calls processOnce before its first select and again after each
\* case <-ticker.C.
RunStartsCycle == {"start", "ticked"}

\* processOnce calls Store.Claim, which reads now := s.now().
ClaimBegin(w) ==
    /\ pc[w] \in RunStartsCycle
    /\ pc' = [pc EXCEPT ![w] = "begun"]
    /\ claimNow' = [claimNow EXCEPT ![w] = clock]
    /\ ev' = NoEvent
    /\ UNCHANGED <<dialect, twin, expo, batchSize, added, clock, nextId, vis, table, locks, selectNow, cand, batch,
                   cycleNow, cancelled, runResult, sends, excused>>

\* The query of Store.Claim fails before it took any row.
ClaimError(w) ==
    /\ pc[w] = "begun"
    /\ pc' = [pc EXCEPT ![w] = AfterCycle(TRUE)]
    /\ claimNow' = [claimNow EXCEPT ![w] = 0]
    /\ ev' = [Event("claim") EXCEPT !.w = w, !.now = claimNow[w], !.err = TRUE]
    /\ UNCHANGED <<dialect, twin, expo, batchSize, added, clock, nextId, vis, table, locks, selectNow,
                   cand, batch, cycleNow, cancelled, runResult, sends, excused>>

\* The candidate SELECT ... FOR UPDATE SKIP LOCKED of a Postgres or MySQL Claim.
ClaimSelect(w) ==
    /\ dialect # "sqlite"
    /\ pc[w] = "begun"
    /\ CtxAllows(TRUE)
    /\ LET S == Candidates(EligibilityInstant(w), batchSize) IN
        /\ cand' = [cand EXCEPT ![w] = S]
        /\ locks' = [id \in Ids |-> IF id \in S THEN w ELSE locks[id]]
    /\ selectNow' = [selectNow EXCEPT ![w] = EligibilityInstant(w)]
    /\ pc' = [pc EXCEPT ![w] = "selected"]
    /\ ev' = NoEvent
    /\ UNCHANGED <<dialect, twin, expo, batchSize, added, clock, nextId, vis, table, claimNow, batch, cycleNow,
                   cancelled, runResult, sends, excused>>

\* A processOnce that returns from an empty cycle without OnCycle.
ClaimHooksSilentWhenEmpty(ok, claimed) == IF ok THEN <<"OnClaim">> ELSE <<>>

\* A processOnce that reports OnClaim before it looks at Claim's error.
ClaimHooksBeforeErrorCheck(ok, claimed) ==
    IF claimed = 0 /\ ok THEN <<"OnClaim", "OnCycle">> ELSE <<"OnClaim">>

\* The hooks processOnce emits when Store.Claim has returned: none on an error,
\* else OnClaim, and OnCycle at once when no envelope came back.
ClaimHooks(ok, claimed) ==
    IF ~ok THEN <<>>
    ELSE IF claimed = 0 THEN <<"OnClaim", "OnCycle">>
    ELSE <<"OnClaim">>

\* The UPDATE of a Claim over the ids S, and what processOnce does with the
\* result: applied says the UPDATE committed, ok that Claim returned no error.
ClaimFinish(w, S, at, applied, ok) ==
    \E order \in ResultOrders(S) :
    LET envs == Returning(order)
        leaseUntil == claimNow[w] + LeaseTTL
    IN
    /\ table' = [id \in Ids |->
                   IF applied /\ id \in S
                   THEN MarkSending(table[id], w, claimNow[w], leaseUntil)
                   ELSE table[id]]
    /\ excused' = [id \in Ids |->
                   excused[id] \/ (applied /\ id \in S /\ table[id].status = "sending")]
    /\ batch' = [batch EXCEPT ![w] = IF ok THEN envs ELSE <<>>]
    /\ cycleNow' = [cycleNow EXCEPT ![w] = IF ok /\ S # {} THEN clock ELSE @]
    /\ pc' = [pc EXCEPT ![w] = IF ok /\ S # {} THEN "dispatch" ELSE AfterCycle(~ok)]
    /\ ev' = [Event("claim") EXCEPT
                !.w = w, !.ids = IF applied THEN S ELSE {}, !.now = claimNow[w],
                !.at = at, !.ran = TRUE, !.err = ~ok,
                !.requested = IF ok THEN batchSize ELSE 0,
                !.claimed = IF ok THEN Len(envs) ELSE 0,
                !.hooks = ClaimHooks(ok, Len(envs))]

\* The UPDATE ... RETURNING and commit of a Postgres or MySQL Claim.
ClaimCommitWith(w, applied, ok) ==
    /\ pc[w] = "selected"
    /\ CtxAllows(applied)
    /\ ClaimFinish(w, cand[w], selectNow[w], applied, ok)
    /\ cand' = [cand EXCEPT ![w] = {}]
    /\ locks' = [id \in Ids |-> IF locks[id] = w THEN NoWorker ELSE locks[id]]
    /\ claimNow' = [claimNow EXCEPT ![w] = 0]
    /\ selectNow' = [selectNow EXCEPT ![w] = 0]
    /\ UNCHANGED <<dialect, twin, expo, batchSize, added, clock, nextId, vis, cancelled, runResult, sends>>

\* The transaction rolls back, commits and answers, or commits and the answer
\* is lost on the way to the caller.
ClaimCommit(w) ==
    \E applied \in BOOLEAN, ok \in BOOLEAN :
        /\ ok => applied
        /\ ClaimCommitWith(w, applied, ok)

\* The single UPDATE ... RETURNING of a SQLite Claim, run under the database's
\* write lock.
ClaimAtomicWith(w, ok) ==
    /\ dialect = "sqlite"
    /\ pc[w] = "begun"
    /\ CtxAllows(TRUE)
    /\ ClaimFinish(w, Candidates(EligibilityInstant(w), batchSize),
                   EligibilityInstant(w), TRUE, ok)
    /\ claimNow' = [claimNow EXCEPT ![w] = 0]
    /\ UNCHANGED <<dialect, twin, expo, batchSize, added, clock, nextId, vis, locks, selectNow, cand, cancelled,
                   runResult, sends>>

ClaimAtomic(w) == \E ok \in BOOLEAN : ClaimAtomicWith(w, ok)

\* handleFailure with attempt > MaxAttempts: one try too many.
ExhaustedOffByOne(attempt) == attempt > MaxAttempts

\* handleFailure with MaxAttempts counted as retries after the first try.
ExhaustedBeforeBudget(attempt) == attempt + 1 >= MaxAttempts

\* handleFailure: attempt >= MaxAttempts marks the row failed, else it is retried.
Exhausted(attempt) == attempt >= MaxAttempts

\* A handleFailure that reschedules whatever the attempt.
OutcomeOpAlwaysRetry(sendOk, attempt) == IF sendOk THEN "send" ELSE "retry"

\* The store call that records the outcome of one Sender.Send.
OutcomeOp(sendOk, attempt) ==
    IF sendOk THEN "send"
    ELSE IF Exhausted(attempt) THEN "fail"
    ELSE "retry"

\* The UPDATE ... WHERE id = $1 of Store.Send, Store.Retry and Store.Fail.
ApplyOutcome(row, op, retryCount, at) ==
    IF op = "send" THEN MarkSent(row, at)
    ELSE IF op = "retry" THEN MarkRetry(row, retryCount, at)
    ELSE MarkFailed(row, retryCount)

\* A processOnce that reports the delivery before it recorded it.
OutcomeHooksBeforeStore(sendOk, op, storeOk) ==
    IF sendOk THEN
        <<"OnSendSuccess">> \o (IF storeOk THEN <<>> ELSE <<"OnStoreError">>)
    ELSE
        <<"OnSendFailure">> \o
            (IF ~storeOk THEN <<"OnStoreError">>
             ELSE IF op = "fail" THEN <<"OnFail">>
             ELSE <<"OnRetry">>)

\* A handleFailure that reports the retry or the failure whether or not the
\* store recorded it.
OutcomeHooksUnrecorded(sendOk, op, storeOk) ==
    IF sendOk THEN
        IF storeOk THEN <<"OnSendSuccess">> ELSE <<"OnStoreError">>
    ELSE
        <<"OnSendFailure">> \o
            (IF ~storeOk THEN <<"OnStoreError">> ELSE <<>>) \o
            (IF op = "fail" THEN <<"OnFail">> ELSE <<"OnRetry">>)

\* A processOnce that logs the error of Store.Send and reports nothing.
OutcomeHooksSilentSendError(sendOk, op, storeOk) ==
    IF sendOk THEN
        IF storeOk THEN <<"OnSendSuccess">> ELSE <<>>
    ELSE
        <<"OnSendFailure">> \o
            (IF ~storeOk THEN <<"OnStoreError">>
             ELSE IF op = "fail" THEN <<"OnFail">>
             ELSE <<"OnRetry">>)

\* The hooks processOnce and handleFailure emit for one envelope.
OutcomeHooks(sendOk, op, storeOk) ==
    IF sendOk THEN
        IF storeOk THEN <<"OnSendSuccess">> ELSE <<"OnStoreError">>
    ELSE
        <<"OnSendFailure">> \o
            (IF ~storeOk THEN <<"OnStoreError">>
             ELSE IF op = "fail" THEN <<"OnFail">>
             ELSE <<"OnRetry">>)

\* A loop that gives up the rest of the batch when an envelope's Sender.Send
\* or store call fails.
RemainingAbortOnError(envs, sendOk, storeOk) ==
    IF sendOk /\ storeOk THEN Tail(envs) ELSE <<>>

\* for _, env := range envelopes, with continue after a failure: whatever the
\* results of the iteration, the loop goes on with the envelopes after env.
Remaining(envs, sendOk, storeOk) == Tail(envs)

\* One iteration of processOnce's loop: Sender.Send for the next envelope, then
\* Store.Send, or handleFailure's Store.Retry or Store.Fail.  The UPDATE waits
\* for a Claim transaction that holds the row's lock.
DispatchWith(w, sendOk, storeOk) ==
    /\ pc[w] = "dispatch"
    /\ LET env == Head(batch[w])
           rest == Remaining(batch[w], sendOk, storeOk)
           attempt == env.retry_count + 1
       IN
       /\ Lockable(env.id)
       /\ CtxAllows(storeOk)
       /\  LET op == OutcomeOp(sendOk, attempt)
                delay == IF op = "retry" THEN Backoff(attempt) ELSE Null
                at == IF op = "send" THEN cycleNow[w]
                      ELSE IF op = "retry" THEN clock + delay
                      ELSE Null
                retryCount == IF op = "send" THEN 0 ELSE attempt
            IN
            /\ sends' = [sends EXCEPT ![env.id] = @ + 1]
            /\ table' = [table EXCEPT ![env.id] =
                           IF storeOk THEN ApplyOutcome(@, op, retryCount, at) ELSE @]
            /\ excused' = [excused EXCEPT ![env.id] = @ \/ ~storeOk]
            /\ ev' = [Event("dispatch") EXCEPT
                        !.w = w, !.id = env.id, !.sendOk = sendOk, !.storeOp = op,
                        !.storeOk = storeOk, !.retryCount = retryCount, !.at = at,
                        !.now = cycleNow[w],
                        !.backoffArg = IF op = "retry" THEN attempt ELSE Null,
                        !.delay = delay,
                        !.errOp = IF storeOk THEN "none" ELSE op,
                        !.errId = IF storeOk THEN 0 ELSE env.id,
                        !.error = StoreErr(storeOk),
                        !.was = table[env.id].status,
                        !.hooks = OutcomeHooks(sendOk, op, storeOk) \o
                                  (IF rest = <<>> THEN <<"OnCycle">> ELSE <<>>)]
       /\ batch' = [batch EXCEPT ![w] = rest]
       /\ pc' = [pc EXCEPT ![w] = IF rest = <<>> THEN AfterCycle(FALSE) ELSE "dispatch"]
       /\ cycleNow' = [cycleNow EXCEPT ![w] = IF rest = <<>> THEN 0 ELSE @]
    /\ UNCHANGED <<dialect, twin, expo, batchSize, added, clock, nextId, vis, locks, claimNow, selectNow, cand,
                   cancelled, runResult>>

\* Sender.Send succeeds or errors, and so does the store call after it.
Dispatch(w) ==
    \E sendOk \in BOOLEAN, storeOk \in BOOLEAN : DispatchWith(w, sendOk, storeOk)

\* case <-ctx.Done(): return ctx.Err()
RunReturn(w) ==
    /\ pc[w] \in {"select", "ticked"}
    /\ cancelled
    /\ pc' = [pc EXCEPT ![w] = "returned"]
    /\ runResult' = [runResult EXCEPT ![w] = "context canceled"]
    /\ ev' = NoEvent
    /\ UNCHANGED <<dialect, twin, expo, batchSize, added, clock, nextId, vis, table, locks, claimNow, selectNow,
                   cand, batch, cycleNow, cancelled, sends, excused>>

\* The caller cancels the context it passed to Run.
Cancel ==
    /\ ~cancelled
    /\ cancelled' = TRUE
    /\ ev' = NoEvent
    /\ UNCHANGED <<dialect, twin, expo, batchSize, added, clock, nextId, vis, table, locks, pc, claimNow, selectNow,
                   cand, batch, cycleNow, runResult, sends, excused>>

\* Wall time passes.
Tick ==
    /\ clock < MaxTime
    /\ clock' = clock + 1
    /\ ev' = NoEvent
    /\ UNCHANGED <<dialect, twin, expo, batchSize, added, nextId, vis, table, locks, pc, claimNow, selectNow, cand,
                   batch, cycleNow, cancelled, runResult, sends, excused>>

Next ==
    \/ Add
    \/ \E id \in Ids : Commit(id)
    \/ \E id \in Ids : Rollback(id)
    \/ \E w \in Workers : PollTick(w)
    \/ \E w \in Workers : ClaimBegin(w)
    \/ \E w \in Workers : ClaimError(w)
    \/ \E w \in Workers : ClaimSelect(w)
    \/ \E w \in Workers : ClaimCommit(w)
    \/ \E w \in Workers : ClaimAtomic(w)
    \/ \E w \in Workers : Dispatch(w)
    \/ \E w \in Workers : RunReturn(w)
    \/ Cancel
    \/ Tick

Spec == Init /\ [][Next]_vars

\* ---------------------------------------------------------------------
\* A relay that keeps running against a database that answers: the context is
\* never cancelled and Claim's statements succeed.  Sender.Send and the outcome
\* calls may still fail.
LiveNext ==
    \/ Add
    \/ \E id \in Ids : Commit(id)
    \/ \E id \in Ids : Rollback(id)
    \/ \E w \in Workers : PollTick(w)
    \/ \E w \in Workers : ClaimBegin(w)
    \/ \E w \in Workers : ClaimSelect(w)
    \/ \E w \in Workers : ClaimCommitWith(w, TRUE, TRUE)
    \/ \E w \in Workers : ClaimAtomicWith(w, TRUE)
    \/ \E w \in Workers : Dispatch(w)
    \/ Tick

\* Run's ticker keeps firing, a statement sent to the database completes, and
\* processOnce's loop reaches its next envelope.
RelayFairness ==
    \A w \in Workers :
        /\ WF_vars(PollTick(w))
        /\ WF_vars(ClaimBegin(w))
        /\ WF_vars(ClaimSelect(w))
        /\ WF_vars(ClaimCommitWith(w, TRUE, TRUE))
        /\ WF_vars(ClaimAtomicWith(w, TRUE))
        /\ WF_vars(Dispatch(w))

LiveSpec == Init /\ [][LiveNext]_vars /\ RelayFairness

\* ---------------------------------------------------------------------
\* One row followed for longer: the table's sequence has a single id left to
\* hand out, the context is never cancelled, and the clock runs on for Overtime
\* instants past MaxTime, long enough for a row to be retried and claimed again
\* while a relay still holds an envelope of an earlier lease.
LongInit ==
    /\ dialect \in Dialects
    /\ clock = 0
    /\ nextId = MaxRows
    /\ vis = [id \in Ids |-> "free"]
    /\ table = [id \in Ids |-> NoRow]
    /\ locks = [id \in Ids |-> NoWorker]
    /\ pc = [w \in Workers |-> "start"]
    /\ claimNow = [w \in Workers |-> 0]
    /\ selectNow = [w \in Workers |-> 0]
    /\ cand = [w \in Workers |-> {}]
    /\ batch = [w \in Workers |-> <<>>]
    /\ cycleNow = [w \in Workers |-> 0]
    /\ cancelled = FALSE
    /\ runResult = [w \in Workers |-> "running"]
    /\ sends = [id \in Ids |-> 0]
    /\ excused = [id \in Ids |-> FALSE]
    /\ added = [id \in Ids |-> NoMessage]
    /\ expo = RelayBackoff
    /\ batchSize = BatchSize
    /\ twin = NoTwin
    /\ ev = NoEvent

\* Wall time passes, past MaxTime.
LateTick ==
    /\ clock >= MaxTime
    /\ clock < MaxTime + Overtime
    /\ clock' = clock + 1
    /\ ev' = NoEvent
    /\ UNCHANGED <<dialect, twin, expo, batchSize, added, nextId, vis, table, locks, pc, claimNow, selectNow, cand,
                   batch, cycleNow, cancelled, runResult, sends, excused>>

LongNext ==
    \/ Add
    \/ \E id \in Ids : Commit(id)
    \/ \E id \in Ids : Rollback(id)
    \/ \E w \in Workers : PollTick(w)
    \/ \E w \in Workers : ClaimBegin(w)
    \/ \E w \in Workers : ClaimError(w)
    \/ \E w \in Workers : ClaimSelect(w)
    \/ \E w \in Workers : ClaimCommit(w)
    \/ \E w \in Workers : ClaimAtomic(w)
    \/ \E w \in Workers : Dispatch(w)
    \/ Tick
    \/ LateTick

LongSpec == LongInit /\ [][LongNext]_vars

\* --------------------------------------------------------- cancellation
\* The same single row, with a caller that may cancel the context of Run.
CancelNext ==
    \/ Add
    \/ \E id \in Ids : Commit(id)
    \/ \E id \in Ids : Rollback(id)
    \/ \E w \in Workers : PollTick(w)
    \/ \E w \in Workers : ClaimBegin(w)
    \/ \E w \in Workers : ClaimError(w)
    \/ \E w \in Workers : ClaimSelect(w)
    \/ \E w \in Workers : ClaimCommit(w)
    \/ \E w \in Workers : ClaimAtomic(w)
    \/ \E w \in Workers : Dispatch(w)
    \/ \E w \in Workers : RunReturn(w)
    \/ Cancel
    \/ Tick

\* A call that processOnce made on the Store or the Sender returns.
CallReturns(w) ==
    \/ ClaimError(w)
    \/ ClaimSelect(w)
    \/ ClaimCommit(w)
    \/ ClaimAtomic(w)
    \/ Dispatch(w)

\* Run gets to its first processOnce and to the one after a tick it chose,
\* every Sender and Store call returns, and a select that finds ctx.Done() ready time after time
\* picks it in the end: Go selects among the ready cases at random.
CancelFairness ==
    \A w \in Workers :
        /\ WF_vars(ClaimBegin(w))
        /\ WF_vars(CallReturns(w))
        /\ SF_vars(RunReturn(w))

CancelSpec == LongInit /\ [][CancelNext]_vars /\ CancelFairness

\* ------------------------------------------------------ a steady store
\* The same single row with a store whose calls all succeed: Sender.Send may
\* fail, Store.Claim, Store.Send, Store.Retry and Store.Fail do not, and the
\* context is never cancelled.
DispatchRecorded(w) == \E sendOk \in BOOLEAN : DispatchWith(w, sendOk, TRUE)

SteadyNext ==
    \/ Add
    \/ \E id \in Ids : Commit(id)
    \/ \E id \in Ids : Rollback(id)
    \/ \E w \in Workers : PollTick(w)
    \/ \E w \in Workers : ClaimBegin(w)
    \/ \E w \in Workers : ClaimSelect(w)
    \/ \E w \in Workers : ClaimCommitWith(w, TRUE, TRUE)
    \/ \E w \in Workers : ClaimAtomicWith(w, TRUE)
    \/ \E w \in Workers : DispatchRecorded(w)
    \/ Tick
    \/ LateTick

\* The relays keep running: the ticker keeps firing, Run gets to its next
\* processOnce, every call returns; and time passes.
SteadyFairness ==
    /\ \A w \in Workers :
        /\ WF_vars(PollTick(w))
        /\ WF_vars(ClaimBegin(w))
        /\ WF_vars(ClaimSelect(w))
        /\ WF_vars(ClaimCommitWith(w, TRUE, TRUE))
        /\ WF_vars(ClaimAtomicWith(w, TRUE))
        /\ WF_vars(DispatchRecorded(w))
    /\ WF_vars(Tick)
    /\ WF_vars(LateTick)

SteadySpec == LongInit /\ [][SteadyNext]_vars /\ SteadyFairness

\* ------------------------------------------------------- wide batches
\* The relays of TestRelayEmitsHooksOnSuccess: BatchSize 2, so that a cycle can
\* hold two envelopes.  The context is never cancelled.
BatchInit ==
    /\ dialect \in Dialects
    /\ batchSize = WideBatch
    /\ clock = 0
    /\ nextId = 1
    /\ vis = [id \in Ids |-> "free"]
    /\ table = [id \in Ids |-> NoRow]
    /\ locks = [id \in Ids |-> NoWorker]
    /\ pc = [w \in Workers |-> "start"]
    /\ claimNow = [w \in Workers |-> 0]
    /\ selectNow = [w \in Workers |-> 0]
    /\ cand = [w \in Workers |-> {}]
    /\ batch = [w \in Workers |-> <<>>]
    /\ cycleNow = [w \in Workers |-> 0]
    /\ cancelled = FALSE
    /\ runResult = [w \in Workers |-> "running"]
    /\ sends = [id \in Ids |-> 0]
    /\ excused = [id \in Ids |-> FALSE]
    /\ added = [id \in Ids |-> NoMessage]
    /\ expo = RelayBackoff
    /\ twin = NoTwin
    /\ ev = NoEvent

BatchNext ==
    \/ Add
    \/ \E id \in Ids : Commit(id)
    \/ \E id \in Ids : Rollback(id)
    \/ \E w \in Workers : PollTick(w)
    \/ \E w \in Workers : ClaimBegin(w)
    \/ \E w \in Workers : ClaimError(w)
    \/ \E w \in Workers : ClaimSelect(w)
    \/ \E w \in Workers : ClaimCommit(w)
    \/ \E w \in Workers : ClaimAtomic(w)
    \/ \E w \in Workers : Dispatch(w)
    \/ Tick

BatchSpec == BatchInit /\ [][BatchNext]_vars

\* ------------------------------------------------------ backoff alone
\* Exponential(base, factor, max) built from every combination of a zero, a
\* small, the test's and the largest duration, with the factors 1, 2 and 10, on
\* each build, and called with attempts from -1 to 10.
Durations == {0, 1, 100, 1000, MaxDuration}
Factors == {1, 2, 10}
Attempts == -1 .. 10

BackoffInit ==
    /\ expo \in {BackoffOf(base, factor, max, build) :
                    base \in Durations, factor \in Factors,
                    max \in Durations, build \in Builds}
    /\ dialect = "postgres"
    /\ batchSize = BatchSize
    /\ clock = 0
    /\ nextId = 1
    /\ vis = [id \in Ids |-> "free"]
    /\ table = [id \in Ids |-> NoRow]
    /\ locks = [id \in Ids |-> NoWorker]
    /\ pc = [w \in Workers |-> "start"]
    /\ claimNow = [w \in Workers |-> 0]
    /\ selectNow = [w \in Workers |-> 0]
    /\ cand = [w \in Workers |-> {}]
    /\ batch = [w \in Workers |-> <<>>]
    /\ cycleNow = [w \in Workers |-> 0]
    /\ cancelled = FALSE
    /\ runResult = [w \in Workers |-> "running"]
    /\ sends = [id \in Ids |-> 0]
    /\ excused = [id \in Ids |-> FALSE]
    /\ added = [id \in Ids |-> NoMessage]
    /\ twin = NoTwin
    /\ ev = NoEvent

\* backoff(attempt): the closure is applied, and the call before it remembered.
BackoffCall(attempt) ==
    /\ expo' = [expo EXCEPT
                  !.calls = IF @ < 2 THEN @ + 1 ELSE @,
                  !.prevAttempt = expo.attempt,
                  !.prevDelay = expo.delay,
                  !.attempt = attempt,
                  !.delay = Exponential(expo.base, expo.factor, expo.max, expo.build, attempt)]
    /\ UNCHANGED <<dialect, twin, batchSize, clock, nextId, vis, table, locks, pc, claimNow,
                   selectNow, cand, batch, cycleNow, cancelled, runResult, sends, excused,
                   added, ev>>

BackoffNext == \E attempt \in Attempts : BackoffCall(attempt)

BackoffSpec == BackoffInit /\ [][BackoffNext]_vars

\* ------------------------------------------------ the relay without hooks
\* The two versions of the relay, each run on its own against collaborators
\* that answer from one script: what Store.Claim returns, and for the i-th
\* envelope what Sender.Send and the store call after it return.
TwinEnvelopes == [id : Ids, retry_count : 0..MaxAttempts - 1]

Scripts ==
    UNION {[claimErr : BOOLEAN,
            envs : {e \in [1..n -> TwinEnvelopes] : \A i \in 1..n : e[i].id = i},
            sendOk : [1..n -> BOOLEAN],
            storeOk : [1..n -> BOOLEAN]] : n \in 0..WideBatch}

\* A call on a collaborator, with its arguments.
Call(op, id, n, at) == [op |-> op, id |-> id, n |-> n, at |-> at]

\* The k-th reading of Options.Now: the clock moves on between readings.
NowAt(k) == k

\* A relay before its processOnce: where it is, the envelope it is at, how
\* often it has read Options.Now, the cycle's now, the calls it has made, the
\* hooks it has emitted and what processOnce returned.
FreshRelay ==
    [pos |-> "claim", i |-> 0, nows |-> 0, now |-> Null, calls |-> <<>>,
     hooks |-> <<>>, ret |-> "none"]

\* A processOnce with hooks that returns when Store.Send fails.
HookedReturnOnStoreError(r, n, failed) ==
    IF failed \/ r.i >= n
    THEN [r EXCEPT !.pos = "done", !.ret = "nil", !.hooks = Append(@, "OnCycle")]
    ELSE [r EXCEPT !.i = @ + 1]

\* With hooks: continue, and after the last envelope OnCycle and return nil.
HookedContinue(r, n, failed) ==
    IF r.i >= n
    THEN [r EXCEPT !.pos = "done", !.ret = "nil", !.hooks = Append(@, "OnCycle")]
    ELSE [r EXCEPT !.i = @ + 1]

\* With hooks: Store.Claim, return on its error, OnClaim, OnCycle and return
\* when nothing was claimed, else read now and enter the loop.
HookedClaim(r, script) ==
    LET c == [r EXCEPT !.calls = Append(@, Call("Store.Claim", 0, BatchSize, LeaseTTL))] IN
    IF script.claimErr THEN [c EXCEPT !.pos = "done", !.ret = "error"]
    ELSE IF Len(script.envs) = 0
    THEN [c EXCEPT !.pos = "done", !.ret = "nil", !.hooks = <<"OnClaim", "OnCycle">>]
    ELSE [c EXCEPT !.pos = "loop", !.i = 1, !.nows = @ + 1, !.now = NowAt(r.nows + 1),
                   !.hooks = <<"OnClaim">>]

\* With hooks: handleFailure.
HookedFailure(r, env, storeOk) ==
    LET attempt == env.retry_count + 1 IN
    IF attempt >= MaxAttempts
    THEN [r EXCEPT !.calls = Append(@, Call("Store.Fail", env.id, attempt, Null)),
                   !.hooks = Append(@, IF storeOk THEN "OnFail" ELSE "OnStoreError")]
    ELSE LET delay == Backoff(attempt)
             nextRetry == NowAt(r.nows + 1) + delay
         IN [r EXCEPT !.nows = @ + 1,
                      !.calls = Append(@, Call("Store.Retry", env.id, attempt, nextRetry)),
                      !.hooks = Append(@, IF storeOk THEN "OnRetry" ELSE "OnStoreError")]

\* With hooks: one iteration of the loop of processOnce.
HookedIterate(r, script) ==
    LET env == script.envs[r.i]
        n == Len(script.envs)
        sent == [r EXCEPT !.calls = Append(@, Call("Sender.Send", env.id, Null, Null))]
    IN
    IF ~script.sendOk[r.i]
    THEN HookedContinue(
            HookedFailure([sent EXCEPT !.hooks = Append(@, "OnSendFailure")],
                          env, script.storeOk[r.i]),
            n, FALSE)
    ELSE LET stored == [sent EXCEPT !.calls = Append(@, Call("Store.Send", env.id, Null, r.now))] IN
         IF ~script.storeOk[r.i]
         THEN HookedContinue([stored EXCEPT !.hooks = Append(@, "OnStoreError")], n, TRUE)
         ELSE HookedContinue([stored EXCEPT !.hooks = Append(@, "OnSendSuccess")], n, FALSE)

\* Without hooks: continue, and after the last envelope return nil.
PlainContinue(r, n) ==
    IF r.i >= n
    THEN [r EXCEPT !.pos = "done", !.ret = "nil"]
    ELSE [r EXCEPT !.i = @ + 1]

\* Without hooks: Store.Claim, return on its error or when nothing was
\* claimed, else read now and enter the loop.
PlainClaim(r, script) ==
    LET c == [r EXCEPT !.calls = Append(@, Call("Store.Claim", 0, BatchSize, LeaseTTL))] IN
    IF script.claimErr THEN [c EXCEPT !.pos = "done", !.ret = "error"]
    ELSE IF Len(script.envs) = 0 THEN [c EXCEPT !.pos = "done", !.ret = "nil"]
    ELSE [c EXCEPT !.pos = "loop", !.i = 1, !.nows = @ + 1, !.now = NowAt(r.nows + 1)]

\* Without hooks: handleFailure.
PlainFailure(r, env, storeOk) ==
    LET attempt == env.retry_count + 1 IN
    IF attempt >= MaxAttempts
    THEN [r EXCEPT !.calls = Append(@, Call("Store.Fail", env.id, attempt, Null))]
    ELSE LET delay == Backoff(attempt)
             nextRetry == NowAt(r.nows + 1) + delay
         IN [r EXCEPT !.nows = @ + 1,
                      !.calls = Append(@, Call("Store.Retry", env.id, attempt, nextRetry))]

\* Without hooks: one iteration of the loop of processOnce.
PlainIterate(r, script) ==
    LET env == script.envs[r.i]
        n == Len(script.envs)
        sent == [r EXCEPT !.calls = Append(@, Call("Sender.Send", env.id, Null, Null))]
    IN
    IF ~script.sendOk[r.i]
    THEN PlainContinue(PlainFailure(sent, env, script.storeOk[r.i]), n)
    ELSE PlainContinue(
            [sent EXCEPT !.calls = Append(@, Call("Store.Send", env.id, Null, r.now))], n)

TwinInit ==
    /\ twin \in [script : Scripts, hooked : {FreshRelay}, plain : {FreshRelay}]
    /\ expo = RelayBackoff
    /\ dialect = "postgres"
    /\ batchSize = BatchSize
    /\ clock = 0
    /\ nextId = 1
    /\ vis = [id \in Ids |-> "free"]
    /\ table = [id \in Ids |-> NoRow]
    /\ locks = [id \in Ids |-> NoWorker]
    /\ pc = [w \in Workers |-> "start"]
    /\ claimNow = [w \in Workers |-> 0]
    /\ selectNow = [w \in Workers |-> 0]
    /\ cand = [w \in Workers |-> {}]
    /\ batch = [w \in Workers |-> <<>>]
    /\ cycleNow = [w \in Workers |-> 0]
    /\ cancelled = FALSE
    /\ runResult = [w \in Workers |-> "running"]
    /\ sends = [id \in Ids |-> 0]
    /\ excused = [id \in Ids |-> FALSE]
    /\ added = [id \in Ids |-> NoMessage]
    /\ ev = NoEvent

\* What the relay with hooks does next; nothing once processOnce returned.
HookedStep(r, script) ==
    IF r.pos = "claim" THEN HookedClaim(r, script)
    ELSE IF r.pos = "loop" THEN HookedIterate(r, script)
    ELSE r

\* What the relay without hooks does next.
PlainStep(r, script) ==
    IF r.pos = "claim" THEN PlainClaim(r, script)
    ELSE IF r.pos = "loop" THEN PlainIterate(r, script)
    ELSE r

\* Each relay that has not returned from processOnce takes its next step.
TwinStep ==
    /\ twin.hooked.pos # "done" \/ twin.plain.pos # "done"
    /\ twin' = [twin EXCEPT
                  !.hooked = HookedStep(@, twin.script),
                  !.plain = PlainStep(@, twin.script)]
    /\ UNCHANGED <<dialect, expo, batchSize, clock, nextId, vis, table, locks, pc, claimNow,
                   selectNow, cand, batch, cycleNow, cancelled, runResult, sends, excused,
                   added, ev>>

TwinNext == TwinStep

TwinSpec == TwinInit /\ [][TwinNext]_vars

\* The producer's messages: every combination of a missing and a present topic,
\* an unused and a used key, and bodies of each kind json.Marshal tells apart,
\* one of them with a number of several digits.
Topics == {"", "order.created"}
Keys == {"", "order-1"}
Bodies ==
    {NilBody, IntBody(0), IntBody(305), StringBody(<<"b", "a", "r">>),
     StructBody(42), NilMapBody, ChanBody}
Messages == [topic : Topics, key : Keys, body : Bodies]

\* One row from Add to Claim and on to its outcome, over every message.
AddNext ==
    \/ \E msg \in Messages : AddMessage(msg)
    \/ \E id \in Ids : Commit(id)
    \/ \E id \in Ids : Rollback(id)
    \/ \E w \in Workers : PollTick(w)
    \/ \E w \in Workers : ClaimBegin(w)
    \/ \E w \in Workers : ClaimSelect(w)
    \/ \E w \in Workers : ClaimCommit(w)
    \/ \E w \in Workers : ClaimAtomic(w)
    \/ \E w \in Workers : Dispatch(w)
    \/ Tick

AddSpec == LongInit /\ [][AddNext]_vars

\* ---------------------------------------------------------------------
\* Steps of Store.Claim, as seen from a pair of states.
\* The candidate statement of worker w's Claim runs in this step.
StatementBy(w) ==
    /\ pc[w] = "begun"
    /\ \/ dialect # "sqlite" /\ pc'[w] = "selected"
       \/ dialect = "sqlite" /\ ev'.kind = "claim" /\ ev'.w = w /\ ev'.ran

\* The ids that statement took, and the instant it compared next_retry_at with.
TakenBy(w) == IF dialect = "sqlite" THEN ev'.ids ELSE cand'[w]
InstantOf(w) == IF dialect = "sqlite" THEN ev'.at ELSE selectNow'[w]

\* Worker w's Claim ends in this step, its UPDATE having run.
FinishBy(w) ==
    /\ pc[w] \in {"begun", "selected"}
    /\ ev'.kind = "claim" /\ ev'.w = w /\ ev'.ran

HeldBy(w) == {batch[w][i].id : i \in 1..Len(batch[w])}

\* C1: the Claims of two workers that are in progress at the same time hold
\* disjoint sets of rows; a Claim never returns a row that another Claim in
\* progress holds; and a Claim statement never takes a row that is locked by
\* another Claim or whose lease has not yet expired at its instant.  Concurrent
\* Claims thus return pairwise disjoint ids.
C1_ConcurrentClaimsDisjoint ==
    /\ [](/\ \A w \in Workers, v \in Workers : w # v => cand[w] \cap cand[v] = {}
          /\ (ev.kind = "claim" /\ ev.ran) =>
                 \A v \in Workers \ {ev.w} : ev.ids \cap cand[v] = {})
    /\ [][\A w \in Workers :
             StatementBy(w) =>
                 \A id \in TakenBy(w) :
                     /\ locks[id] = NoWorker
                     /\ \A v \in Workers \ {w} : id \notin cand[v]
                     /\ ~(table[id].status = "sending"
                            /\ table[id].next_retry_at > InstantOf(w))]_vars

\* Two Claim transactions are open at once and each holds rows.
C1_Witness ==
    /\ pc["w1"] = "selected" /\ pc["w2"] = "selected"
    /\ cand["w1"] # {} /\ cand["w2"] # {}

\* C2: a row whose business transaction has not committed (still open, or
\* rolled back) is never taken by a Claim, never held by a worker and never
\* passed to Sender.Send; a row whose transaction committed is eventually
\* passed to Sender.Send at least once.
C2_DeliveredIffCommitted ==
    /\ [](\A id \in Ids :
            vis[id] # "committed" =>
                /\ sends[id] = 0
                /\ table[id].status \in {"none", "pending"}
                /\ \A w \in Workers : id \notin cand[w] /\ id \notin HeldBy(w))
    /\ \A id \in Ids : (vis[id] = "committed") ~> (sends[id] >= 1)

\* One insert was rolled back and was never sent, another committed and was.
C2_Witness ==
    \E i \in Ids, j \in Ids :
        /\ vis[i] = "rolledback" /\ sends[i] = 0
        /\ vis[j] = "committed" /\ sends[j] >= 1

\* C3: whatever the relays do, a row's status changes only along the edges
\* pending->sending, retry->sending, sending->sending, sending->sent,
\* sending->retry and sending->failed (and none->pending, pending->none for the
\* producer's insert and its rollback).
C3_OnlyMachineEdges ==
    [][\A id \in Ids :
         table'[id].status # table[id].status =>
             <<table[id].status, table'[id].status>> \in
                 {<<"none", "pending">>, <<"pending", "none">>,
                  <<"pending", "sending">>, <<"retry", "sending">>,
                  <<"sending", "sent">>, <<"sending", "retry">>,
                  <<"sending", "failed">>}]_vars

\* C4: sent and failed are terminal: no operation of any relay changes the
\* status of a row that is sent or failed.
C4_TerminalStatus ==
    [][\A id \in Ids :
         table[id].status \in {"sent", "failed"} =>
             table'[id].status = table[id].status]_vars

\* C5: a row left in sending whose next_retry_at has passed is taken by the
\* next Claim statement of any worker that still has room below its limit for
\* it, with no other step needed, and the Claim's UPDATE writes that worker's id
\* into claimed_by.
C5_ExpiredLeaseReclaimed ==
    [][\A w \in Workers :
         /\ StatementBy(w) =>
               \A id \in Ids :
                   ( /\ vis[id] = "committed"
                     /\ table[id].status = "sending"
                     /\ table[id].next_retry_at <= InstantOf(w)
                     /\ locks[id] = NoWorker
                     /\ Cardinality({j \in TakenBy(w) : j < id}) < BatchSize )
                   => id \in TakenBy(w)
         /\ FinishBy(w) =>
               \A id \in ev'.ids :
                   table'[id].status = "sending" /\ table'[id].claimed_by = w]_vars

\* A worker has just been returned a row that another worker still holds
\* undispatched from its own, expired, lease.
C5_Witness ==
    /\ ev.kind = "claim" /\ ~ev.err
    /\ \E id \in ev.ids, v \in Workers \ {ev.w} :
          id \in HeldBy(v) /\ table[id].claimed_by = ev.w

\* C6: a Claim that returns rows returns at most limit of them, and each is
\* then sending, claimed by the caller, with claimed_at = now and
\* next_retry_at = now + leaseTTL, now being the instant of the eligibility test.
C6_ClaimWritesLease ==
    (ev.kind = "claim" /\ ~ev.err) =>
        /\ Cardinality(ev.ids) <= BatchSize
        /\ \A id \in ev.ids :
              /\ table[id].status = "sending"
              /\ table[id].claimed_by = ev.w
              /\ table[id].claimed_at = ev.at
              /\ table[id].next_retry_at = ev.at + LeaseTTL

\* C7: a Claim statement takes only committed rows that are pending, retry or
\* sending with next_retry_at <= now; the rows a Claim returns were still so
\* when its UPDATE ran and every other row is left as it was; with no such row
\* the result is empty.
C7_OnlyEligibleClaimed ==
    [][\A w \in Workers :
         /\ StatementBy(w) =>
               \A id \in TakenBy(w) :
                   /\ vis[id] = "committed"
                   /\ table[id].status \in {"pending", "retry", "sending"}
                   /\ table[id].next_retry_at <= InstantOf(w)
         /\ FinishBy(w) =>
               \A id \in Ids :
                   IF id \in ev'.ids
                   THEN /\ vis[id] = "committed"
                        /\ table[id].status \in {"pending", "retry", "sending"}
                        /\ table[id].next_retry_at <= ev'.at
                   ELSE table'[id] = table[id]]_vars

\* A Claim returned nothing, without error, while the table held a sent row, a
\* failed row or a row whose next_retry_at is still ahead.
C7_Witness ==
    /\ ev.kind = "claim" /\ ~ev.err /\ ev.ids = {}
    /\ \E id \in Ids :
          /\ vis[id] = "committed"
          /\ \/ table[id].status \in {"sent", "failed"}
             \/ table[id].next_retry_at > ev.at

C9_RunReturnsOnlyOnCancel ==
    \A w \in Workers :
        IF pc[w] = "returned"
        THEN cancelled /\ runResult[w] = "context canceled"
        ELSE runResult[w] = "running"

\* Sender.Send and the store call after it both failed, or Claim failed, and
\* Run is back in its select with the context not cancelled.
C9_Witness ==
    /\ ~cancelled
    /\ \/ ev.kind = "dispatch" /\ ~ev.sendOk /\ ~ev.storeOk
       \/ ev.kind = "claim" /\ ev.err
    /\ pc[ev.w] = "select"

\* C10: after Sender.Send succeeded and Store.Send(e.id, now) succeeded, the
\* row is sent with sent_at = now, the cycle's snapshot, and no claim.
C10_DeliveredRowIsSent ==
    (ev.kind = "dispatch" /\ ev.sendOk /\ ev.storeOk) =>
        /\ ev.storeOp = "send" /\ ev.at = ev.now
        /\ table[ev.id].status = "sent"
        /\ table[ev.id].sent_at = ev.now
        /\ table[ev.id].claimed_by = NoWorker
        /\ table[ev.id].claimed_at = Null

\* A delivery recorded after the clock moved past the cycle's snapshot.
C10_Witness ==
    /\ ev.kind = "dispatch" /\ ev.sendOk /\ ev.storeOk
    /\ ev.now < clock

\* C11: Store.Send on a row that is already sent is a no-op: every field of
\* the row, sent_at included, stays as the first Store.Send left it.
C11_SendIdempotent ==
    [][\A id \in Ids :
         ( /\ table[id].status = "sent"
           /\ ev'.kind = "dispatch" /\ ev'.id = id
           /\ ev'.storeOp = "send" /\ ev'.storeOk )
         => table'[id] = table[id]]_vars

\* C12: the retry_count of a row never decreases, whichever relay records an
\* outcome for it.
C12_RetryCountMonotone ==
    [][\A id \in Ids :
         (table[id].status # "none" /\ table'[id].status # "none")
         => table'[id].retry_count >= table[id].retry_count]_vars

\* C13: in every state and for every row, sent_at is non-null if and only if
\* the row's status is sent.
C13_SentAtIffSent ==
    \A id \in Ids :
        (table[id].sent_at # Null) <=> (table[id].status = "sent")

\* C14: in every state and for every row, claimed_by and claimed_at are null
\* when the status is pending, retry, sent or failed, and both are set while
\* it is sending.
C14_ClaimColumnsOnlyWhileSending ==
    \A id \in Ids :
        IF table[id].status = "sending"
        THEN table[id].claimed_by \in Workers /\ table[id].claimed_at # Null
        ELSE table[id].claimed_by = NoWorker /\ table[id].claimed_at = Null

\* A row that a relay holding an expired lease released for retry after
\* another relay had marked it sent: its claim columns are null all the same.
C14_Witness ==
    \E id \in Ids :
        /\ table[id].status = "retry" /\ table[id].sent_at # Null
        /\ table[id].claimed_by = NoWorker

\* C15: an outcome (Send, Retry or Fail) is applied to a row only by the relay
\* named in the row's claimed_by: a relay whose row was re-claimed by another
\* worker, or is no longer claimed, changes nothing of it.
C15_OutcomeOnlyByLeaseHolder ==
    [][\A id \in Ids :
         ( /\ ev'.kind = "dispatch" /\ ev'.id = id
           /\ table'[id] # table[id] )
         => table[id].claimed_by = ev'.w]_vars

\* C16: every Claim statement takes as many rows as its limit allows among the
\* committed rows that are pending, retry or sending with next_retry_at <= now
\* and not locked by another Claim; and while no lease has been re-claimed, the
\* rows held by different workers are disjoint.  So N workers that claim with
\* limit k on N*k eligible rows are returned all of them, each exactly once.
C16_ConcurrentClaimsCoverEligible ==
    /\ [][\A w \in Workers :
             StatementBy(w) =>
                 LET avail == {id \in Ids :
                                  /\ vis[id] = "committed"
                                  /\ table[id].status \in {"pending", "retry", "sending"}
                                  /\ table[id].next_retry_at <= InstantOf(w)
                                  /\ locks[id] = NoWorker}
                 IN /\ TakenBy(w) \subseteq avail
                    /\ Cardinality(TakenBy(w)) =
                           IF Cardinality(avail) < BatchSize
                           THEN Cardinality(avail) ELSE BatchSize]_vars
    /\ []((\A id \in Ids : ~excused[id]) =>
              \A w \in Workers, v \in Workers :
                  w # v => HeldBy(w) \cap HeldBy(v) = {})

\* Each of the N workers holds the k rows its Claim returned, none of them
\* dispatched yet, and together they hold all N*k rows of the table.
C16_Witness ==
    /\ \A w \in Workers : pc[w] = "dispatch" /\ Cardinality(HeldBy(w)) = BatchSize
    /\ UNION {HeldBy(w) : w \in Workers} = Ids
    /\ \A id \in Ids : sends[id] = 0 /\ ~excused[id]

\* C17: for a row whose Sender.Send calls all failed, whose outcome calls all
\* succeeded and whose lease was never re-claimed, the k-th failure records
\* retry_count = k: by Store.Retry while k < MaxAttempts, leaving the row in
\* retry, and by Store.Fail(id, MaxAttempts) when k = MaxAttempts, leaving the
\* row failed after exactly MaxAttempts dispatches.
C17_FailsAfterMaxAttempts ==
    /\ \A id \in Ids :
          (~excused[id] /\ table[id].status \notin {"none", "sent"}) =>
              /\ table[id].retry_count = sends[id]
              /\ (table[id].status = "failed") <=> (sends[id] = MaxAttempts)
              /\ (table[id].status = "pending") => (sends[id] = 0)
              /\ (table[id].status = "retry") => (sends[id] >= 1)
              /\ sends[id] <= MaxAttempts
    /\ (ev.kind = "dispatch" /\ ~ev.sendOk /\ ~excused[ev.id]) =>
          /\ ev.storeOk
          /\ ev.retryCount = sends[ev.id]
          /\ ev.storeOp = (IF sends[ev.id] = MaxAttempts THEN "fail" ELSE "retry")
          /\ table[ev.id].status = (IF sends[ev.id] = MaxAttempts THEN "failed" ELSE "retry")

\* The MaxAttempts-th failure of such a row has just been recorded by
\* Store.Fail(id, MaxAttempts).
C17_Witness ==
    /\ ev.kind = "dispatch" /\ ~ev.sendOk /\ ev.storeOp = "fail" /\ ev.storeOk
    /\ ~excused[ev.id]
    /\ ev.retryCount = MaxAttempts /\ sends[ev.id] = MaxAttempts
    /\ table[ev.id].status = "failed"

\* The step emits hook h for row id.
Fires(h, id) ==
    /\ ev'.kind = "dispatch" /\ ev'.id = id
    /\ \E i \in 1..Len(ev'.hooks) : ev'.hooks[i] = h

\* C18: over all relays and cycles OnSendSuccess fires once for a row that is
\* delivered and OnFail once for a row that exhausts its attempts.  A row is
\* marked sent only by a step that fires OnSendSuccess, and failed only by a
\* step that fires OnFail, so neither hook fires for a row that is already
\* sent, respectively already failed.
C18_HooksFireOnce ==
    [][\A id \in Ids :
         /\ Fires("OnSendSuccess", id) => table[id].status # "sent"
         /\ Fires("OnFail", id) => table[id].status # "failed"]_vars

\* C19: Add -> Claim round trip.  Every envelope a Claim returns carries the
\* topic of the message Add accepted for its row, that message's key (nil for
\* the unused, empty key), and a payload that Decode turns back into the
\* message's body without error; and the envelope of a row's first Claim, the
\* one that finds it pending, has retry_count 0.
C19_AddClaimRoundTrip ==
    [][\A w \in Workers :
        (ev'.kind = "claim" /\ ev'.w = w /\ ~ev'.err) =>
            \A i \in 1..Len(batch'[w]) :
                LET e == batch'[w][i]
                    m == added[e.id]
                IN
                /\ vis[e.id] = "committed"
                /\ validate(m) = ""
                /\ e.topic = m.topic
                /\ e.key = (IF m.key = "" THEN <<>> ELSE <<m.key>>)
                /\ Decode(e, m.body.type) = [err |-> FALSE, value |-> m.body]
                /\ (table[e.id].status = "pending" => e.retry_count = 0)]_vars

\* A relay holds the envelope of a first Claim on Postgres whose message had no
\* key and a struct body: the payload came back re-rendered by the JSONB
\* column, and still decodes to the body.
C19_Witness ==
    /\ ev.kind = "claim"
    /\ ~ev.err
    /\ dialect = "postgres"
    /\ Len(batch[ev.w]) > 0
    /\ LET e == batch[ev.w][1] IN
        /\ added[e.id] = [topic |-> "order.created", key |-> "", body |-> StructBody(42)]
        /\ e.topic = "order.created"
        /\ e.key = <<>>
        /\ e.payload # Marshal(StructBody(42)).data
        /\ Decode(e, "struct").value = StructBody(42)
        /\ e.retry_count = 0

\* The row an Add step inserted, seen from the pair of states: exactly the slot
\* id went from empty to a row, uncommitted, with the column defaults: pending,
\* retry_count 0, no claim, no sent_at, next_retry_at the instant of the insert,
\* which the eligibility predicate's time and status conditions accept at once.
InsertedOneRow(id) ==
    /\ table[id] = NoRow
    /\ \A other \in Ids \ {id} : table'[other] = table[other] /\ vis'[other] = vis[other]
    /\ vis'[id] = "open"
    /\ table'[id].status = "pending"
    /\ table'[id].retry_count = 0
    /\ table'[id].claimed_by = NoWorker
    /\ table'[id].claimed_at = Null
    /\ table'[id].sent_at = Null
    /\ table'[id].next_retry_at = clock'
    /\ table'[id].status \in {"pending", "retry", "sending"}
    /\ table'[id].next_retry_at <= clock'

\* An Add step that returned an error and left the table as it was.
RejectedNoRow == ev'.err /\ ev'.error # "" /\ table' = table /\ vis' = vis /\ nextId' = nextId

C21_BackoffBoundedMonotone ==
    (expo.base > 0 /\ expo.base <= expo.max /\ expo.factor >= 1) =>
        /\ expo.calls >= 1 => (expo.delay >= expo.base /\ expo.delay <= expo.max)
        /\ (expo.calls >= 2 /\ expo.prevAttempt <= expo.attempt) =>
                expo.prevDelay <= expo.delay

C23_FailurePolicy ==
    [][\A w \in Workers :
        (ev'.kind = "dispatch" /\ ev'.w = w /\ ~ev'.sendOk) =>
            LET env == Head(batch[w])
                attempt == env.retry_count + 1
            IN
            /\ ev'.id = env.id
            /\ ev'.retryCount = attempt
            /\ IF attempt >= MaxAttempts
               THEN /\ ev'.storeOp = "fail"
                    /\ ev'.backoffArg = Null
               ELSE /\ ev'.storeOp = "retry"
                    /\ ev'.backoffArg = attempt
                    /\ ev'.delay =
                         Exponential(BackoffBase, BackoffFactor, BackoffMax, "amd64", attempt)
                    /\ ev'.at = clock + ev'.delay]_vars

\* A relay has just rescheduled a row after its first failed send: the row is
\* in retry with retry_count 1, due one backoff from now.
C23_Witness ==
    /\ ev.kind = "dispatch"
    /\ ~ev.sendOk
    /\ ev.storeOp = "retry"
    /\ ev.storeOk
    /\ ev.backoffArg = 1
    /\ ev.at = clock + BackoffBase
    /\ table[ev.id].status = "retry"
    /\ table[ev.id].retry_count = 1
    /\ table[ev.id].next_retry_at = ev.at

\* The hooks of the latest step include h.
Emitted(h) == \E i \in 1..Len(ev'.hooks) : ev'.hooks[i] = h

\* C24: when Sender.Send succeeded for the envelope at the head of a relay's
\* batch and Store.Send returned an error, the step emits
\* OnStoreError("send", id, err) and no OnSendSuccess, and the relay goes on
\* with the rest of the batch, the next envelope if there is one; and
\* OnSendSuccess is emitted only in a step whose Store.Send succeeded.
C24_StoreSendErrorHooked ==
    [][\A w \in Workers :
        (ev'.kind = "dispatch" /\ ev'.w = w) =>
            /\ (ev'.sendOk /\ ~ev'.storeOk) =>
                    /\ ev'.storeOp = "send"
                    /\ Emitted("OnStoreError")
                    /\ ev'.errOp = "send"
                    /\ ev'.errId = Head(batch[w]).id
                    /\ ~Emitted("OnSendSuccess")
                    /\ batch'[w] = Tail(batch[w])
                    /\ pc'[w] = (IF Tail(batch[w]) = <<>> THEN "select" ELSE "dispatch")
                    /\ runResult'[w] = "running"
            /\ Emitted("OnSendSuccess") =>
                    (ev'.sendOk /\ ev'.storeOp = "send" /\ ev'.storeOk)]_vars

\* Store.Send has just failed for the first of a relay's two envelopes: the
\* row stays as Claim left it and the relay is about to send the second.
C24_Witness ==
    /\ ev.kind = "dispatch"
    /\ ev.sendOk
    /\ ~ev.storeOk
    /\ ev.errOp = "send"
    /\ pc[ev.w] = "dispatch"
    /\ Len(batch[ev.w]) = 1
    /\ batch[ev.w][1].id # ev.id
    /\ table[ev.id].status = "sending"

\* C25: OnRetry is emitted only in a step whose Store.Retry succeeded and
\* OnFail only in a step whose Store.Fail succeeded; when Store.Retry or
\* Store.Fail returns an error the step emits OnSendFailure and
\* OnStoreError(op, id, err) with op the call that failed and id the envelope's
\* id, emits neither OnRetry nor OnFail, and the relay goes on: Run has not
\* returned and is in the loop of the cycle or waiting for its next tick.
C25_RetryFailHooksAfterStore ==
    [][\A w \in Workers :
        (ev'.kind = "dispatch" /\ ev'.w = w) =>
            /\ Emitted("OnRetry") => (~ev'.sendOk /\ ev'.storeOp = "retry" /\ ev'.storeOk)
            /\ Emitted("OnFail") => (~ev'.sendOk /\ ev'.storeOp = "fail" /\ ev'.storeOk)
            /\ (~ev'.sendOk /\ ~ev'.storeOk) =>
                    /\ ev'.storeOp \in {"retry", "fail"}
                    /\ Emitted("OnSendFailure")
                    /\ Emitted("OnStoreError")
                    /\ ev'.errOp = ev'.storeOp
                    /\ ev'.errId = Head(batch[w]).id
                    /\ ~Emitted("OnRetry")
                    /\ ~Emitted("OnFail")
                    /\ table'[ev'.id] = table[ev'.id]
                    /\ runResult'[w] = "running"
                    /\ pc'[w] \in {"dispatch", "select"}]_vars

\* Store.Fail has just returned an error for a row on its last attempt: the
\* relay reported OnStoreError("fail", id), the row is still sending, and Run
\* waits for its next tick.
C25_Witness ==
    /\ ev.kind = "dispatch"
    /\ ~ev.sendOk
    /\ ~ev.storeOk
    /\ ev.storeOp = "fail"
    /\ ev.errOp = "fail"
    /\ ev.hooks = <<"OnSendFailure", "OnStoreError", "OnCycle">>
    /\ table[ev.id].status = "sending"
    /\ pc[ev.w] = "select"
    /\ runResult[ev.w] = "running"

\* C26: a dispatch step whose Store.Send, Store.Retry or Store.Fail returned an
\* error leaves the row as it was, and if the relay still holds the row's lease
\* that is: sending, with the lease Claim wrote; and a committed row left in
\* sending whose lease has expired is returned again by a Claim (unless a relay
\* that still held one of its envelopes recorded an outcome first), with no
\* step other than the relays' own cycles.
C26_StoreErrorLeavesRowForReclaim ==
    /\ [][\A w \in Workers :
            (ev'.kind = "dispatch" /\ ev'.w = w /\ ~ev'.storeOk) =>
                /\ table'[ev'.id] = table[ev'.id]
                /\ table[ev'.id].claimed_by = w =>
                        /\ table'[ev'.id].status = "sending"
                        /\ table'[ev'.id].next_retry_at =
                               table'[ev'.id].claimed_at + LeaseTTL]_vars
    /\ \A id \in Ids :
            (vis[id] = "committed" /\ table[id].status = "sending"
                /\ table[id].next_retry_at <= clock)
            ~> (\/ ev.kind = "claim" /\ ~ev.err /\ id \in ev.ids
                \/ table[id].status # "sending")

\* A Claim has just returned a row again for which a relay had called the
\* Sender and no outcome was ever recorded.
C26_Witness ==
    /\ ev.kind = "claim"
    /\ ~ev.err
    /\ \E id \in ev.ids :
          /\ sends[id] >= 1
          /\ excused[id]
          /\ table[id].status = "sending"
          /\ table[id].retry_count = 0
          /\ table[id].claimed_by = ev.w
          /\ \A w \in Workers \ {ev.w} : id \notin HeldBy(w)

\* How many times the latest step emitted hook h.
HookCount(h) == Cardinality({i \in 1..Len(ev'.hooks) : ev'.hooks[i] = h})

\* The step ends a cycle of relay w: processOnce returns to Run.
CycleEnds(w) == pc[w] \in {"begun", "selected", "dispatch"} /\ pc'[w] = "select"

IdsOf(envs) == [i \in 1..Len(envs) |-> envs[i].id]

\* C29: a Claim's statement takes the eligible, unlocked rows with the smallest
\* ids; a Claim that succeeds returns the rows it took in ascending id order;
\* and a relay calls the Sender for the envelope at the head of its batch, whose
\* id is smaller than the id of every envelope still to be sent in the cycle.
C29_AscendingIdOrder ==
    [][\A w \in Workers :
        /\ StatementBy(w) =>
                \A id \in TakenBy(w), j \in Ids \ TakenBy(w) :
                    (/\ vis[j] = "committed"
                     /\ table[j].status \in {"pending", "retry", "sending"}
                     /\ table[j].next_retry_at <= InstantOf(w)
                     /\ locks[j] = NoWorker) => id < j
        /\ (ev'.kind = "claim" /\ ev'.w = w /\ ~ev'.err) =>
                IdsOf(batch'[w]) = AscendingIds(ev'.ids)
        /\ (ev'.kind = "dispatch" /\ ev'.w = w) =>
                /\ ev'.id = Head(batch[w]).id
                /\ \A i \in 1..Len(batch'[w]) : ev'.id < batch'[w][i].id]_vars

\* The positions of Run inside processOnce.
InCycle == {"begun", "selected", "dispatch"}

\* C30: Run's first step is a processOnce, taken before any tick is received;
\* every later processOnce starts from a tick that Run received in its select,
\* and a tick is received only in that select, after the cycle before it has
\* returned; a relay inside a cycle stays in it until it reaches the select, so
\* two cycles of one relay never overlap.
C30_RunCyclesOnTicks ==
    [][\A w \in Workers :
        /\ (pc[w] = "start" /\ pc'[w] # "start") => pc'[w] = "begun"
        /\ (pc'[w] = "begun" /\ pc[w] # "begun") => pc[w] \in {"start", "ticked"}
        /\ (pc'[w] = "ticked" /\ pc[w] # "ticked") => pc[w] = "select"
        /\ pc[w] \in InCycle => pc'[w] \in InCycle \cup {"select"}]_vars

\* A relay is in its second cycle, begun after a tick: it has called the Sender
\* in a cycle that ended, and the other relay has not started.
C30_Witness ==
    \E w \in Workers :
        /\ pc[w] = "begun"
        /\ \E id \in Ids : sends[id] > 0
        /\ \A v \in Workers \ {w} : pc[v] = "start"

\* C31: when Sender.Send has delivered an envelope, the relay calls Store.Send
\* for it in the same iteration, also when the context of Run was cancelled
\* during the cycle, and the cancellation does not keep that call from
\* recording the delivery.
C31_SendRecordedDespiteCancel ==
    [][(ev'.kind = "dispatch" /\ ev'.sendOk) =>
            /\ ev'.storeOp = "send"
            /\ ev'.error # "context canceled"]_vars

\* Run has returned the error of the cancelled context.
RunCancelled(w) == pc[w] = "returned" /\ runResult[w] = "context canceled"

\* A Run returns nothing but the error of its context, and only once the
\* context is cancelled.
ReturnsCtxErr ==
    \A w \in Workers :
        /\ runResult[w] \in {"running", "context canceled"}
        /\ runResult[w] = "context canceled" => cancelled /\ pc[w] = "returned"
        /\ pc[w] = "returned" => runResult[w] = "context canceled"

\* C32: once the context is cancelled every Run returns, with the error of the
\* context, after finishing at most the cycle in progress: no processOnce is
\* started under a cancelled context.
C32_RunStopsAfterCurrentCycle ==
    /\ cancelled ~> (\A w \in Workers : RunCancelled(w))
    /\ []ReturnsCtxErr
    /\ [][\A w \in Workers :
            (cancelled /\ pc'[w] = "begun") => pc[w] = "begun"]_vars

\* C32, amended: once the context is cancelled every Run returns, with the
\* error of the context.  A processOnce can still start under the cancelled
\* context, at the start of Run or from a tick that the select chose over
\* ctx.Done(), but its Claim fails: it takes no row, returns no envelope and
\* leaves the table as it was, and Run is back in its select.
C32_RunReturnsAfterIdleCycles ==
    /\ cancelled ~> (\A w \in Workers : RunCancelled(w))
    /\ []ReturnsCtxErr
    /\ [][\A w \in Workers :
            /\ (cancelled /\ pc'[w] = "begun" /\ pc[w] # "begun") =>
                    pc[w] \in {"start", "ticked"}
            /\ (cancelled /\ pc[w] = "begun" /\ pc'[w] # "begun") =>
                    /\ pc'[w] = "select"
                    /\ ev'.kind = "claim" /\ ev'.w = w /\ ev'.err
                    /\ batch'[w] = <<>>
                    /\ table' = table /\ sends' = sends]_vars

\* Both Runs have returned the error of the context, one of them from a
\* select that came after a cycle in which it called the Sender.
C32_Witness ==
    /\ \A w \in Workers : RunCancelled(w)
    /\ \E id \in Ids : sends[id] > 0

\* C33: a Store.Fail(id, n) that succeeds leaves the row failed, with
\* retry_count n and no claim, whatever status the row had when the UPDATE ran:
\* sending, or the retry, sent or failed that another call had written since
\* the envelope was claimed.
C33_FailWhateverStatus ==
    [][(ev'.kind = "dispatch" /\ ev'.storeOp = "fail" /\ ev'.storeOk) =>
            /\ ev'.was = table[ev'.id].status
            /\ table'[ev'.id].status = "failed"
            /\ table'[ev'.id].retry_count = ev'.retryCount
            /\ table'[ev'.id].claimed_by = NoWorker
            /\ table'[ev'.id].claimed_at = Null]_vars

\* Store.Retry and then Store.Fail for one claimed row, as in
\* TestStoreLifecycle: the Fail found the row in status retry and left it
\* failed with its own retry_count.
C33_Witness ==
    /\ ev.kind = "dispatch"
    /\ ev.storeOp = "fail"
    /\ ev.storeOk
    /\ ev.was = "retry"
    /\ table[ev.id].status = "failed"
    /\ table[ev.id].retry_count = ev.retryCount

\* C34: a Store.Retry(id, n, t) that succeeds leaves the row in status retry
\* with retry_count n, next_retry_at t and no claim; a Claim statement takes a
\* row in status retry only if its next_retry_at is not after the statement's
\* instant, and does take it then when the row is unlocked and within the
\* limit; the envelope a Claim returns carries the row's retry_count; and so no
\* Sender.Send is made for a row while it waits in status retry for a
\* next_retry_at that has not come.
C34_RetryHonoursBackoff ==
    [][/\ (ev'.kind = "dispatch" /\ ev'.storeOp = "retry" /\ ev'.storeOk) =>
            /\ table'[ev'.id].status = "retry"
            /\ table'[ev'.id].retry_count = ev'.retryCount
            /\ table'[ev'.id].next_retry_at = ev'.at
            /\ table'[ev'.id].claimed_by = NoWorker
            /\ table'[ev'.id].claimed_at = Null
       /\ \A w \in Workers :
            /\ StatementBy(w) =>
                  \A id \in Ids :
                      (vis[id] = "committed" /\ table[id].status = "retry") =>
                          /\ id \in TakenBy(w) => table[id].next_retry_at <= InstantOf(w)
                          /\ ( /\ table[id].next_retry_at <= InstantOf(w)
                               /\ locks[id] = NoWorker
                               /\ Cardinality({j \in TakenBy(w) : j < id}) < batchSize )
                             => id \in TakenBy(w)
            /\ (FinishBy(w) /\ ~ev'.err) =>
                  \A i \in 1..Len(batch'[w]) :
                      batch'[w][i].retry_count = table[batch'[w][i].id].retry_count
       /\ ev'.kind = "dispatch" =>
            ~(table[ev'.id].status = "retry" /\ table[ev'.id].next_retry_at > clock)]_vars

\* C35: retry_count counts the failed Sender.Send calls of a row.  It starts
\* at 0 with the row, so the two are equal after every attempt exactly when
\* each step raises retry_count by one if it made a Sender.Send call for the
\* row that failed, and leaves it alone otherwise.
C35_RetryCountCountsFailures ==
    [][\A id \in Ids :
        table'[id].retry_count =
            table[id].retry_count +
            (IF ev'.kind = "dispatch" /\ ev'.id = id /\ ~ev'.sendOk THEN 1 ELSE 0)]_vars

\* The columns of a row that no relay operation writes.
Content(row) == <<row.topic, row.key, row.payload, row.created_at>>

\* C36: a step of Claim, Send, Retry or Fail leaves the topic, key, payload and
\* created_at of every row as they were and removes no row (a row keeps its id:
\* the table is indexed by it); the rows a Claim takes keep their retry_count
\* and sent_at; a Send keeps its row's retry_count and next_retry_at, a Fail its
\* row's next_retry_at and sent_at, and a Retry its row's sent_at.
C36_Frame ==
    [][ev'.kind \in {"claim", "dispatch"} =>
        /\ \A id \in Ids :
              /\ Content(table'[id]) = Content(table[id])
              /\ table[id].status # "none" => table'[id].status # "none"
              /\ vis'[id] = vis[id]
        /\ ev'.kind = "claim" =>
              \A id \in Ids :
                  /\ table'[id].retry_count = table[id].retry_count
                  /\ table'[id].sent_at = table[id].sent_at
        /\ (ev'.kind = "dispatch" /\ ev'.storeOp = "send") =>
              /\ table'[ev'.id].retry_count = table[ev'.id].retry_count
              /\ table'[ev'.id].next_retry_at = table[ev'.id].next_retry_at
        /\ (ev'.kind = "dispatch" /\ ev'.storeOp = "fail") =>
              /\ table'[ev'.id].next_retry_at = table[ev'.id].next_retry_at
              /\ table'[ev'.id].sent_at = table[ev'.id].sent_at
        /\ (ev'.kind = "dispatch" /\ ev'.storeOp = "retry") =>
              table'[ev'.id].sent_at = table[ev'.id].sent_at
        /\ ev'.kind = "dispatch" =>
              \A id \in Ids \ {ev'.id} : table'[id] = table[id]]_vars

\* A row inserted at an earlier instant, retried once and with a retry_count
\* to keep, has just been taken by a Claim.
C36_Witness ==
    /\ ev.kind = "claim"
    /\ ~ev.err
    /\ \E id \in ev.ids :
          /\ table[id].status = "sending"
          /\ table[id].retry_count > 0
          /\ table[id].created_at < table[id].claimed_at
          /\ table[id].payload # <<>>

\* The hooks that report what became of one envelope.
OutcomeHookNames == {"OnSendSuccess", "OnRetry", "OnFail", "OnStoreError"}

\* C37: the step that dispatches an envelope emits exactly one of
\* OnSendSuccess, OnRetry, OnFail and OnStoreError; it emits OnSendFailure, once
\* and before that hook, exactly when that hook is OnRetry, OnFail or an
\* OnStoreError of op "retry" or "fail"; and a cycle dispatches every envelope
\* its Claim returned: only a Claim puts envelopes in a relay's batch, each
\* dispatch takes the first of them, and the cycle ends with none left.
C37_OneOutcomeHookPerEnvelope ==
    [][\A w \in Workers :
        /\ (ev'.kind = "dispatch" /\ ev'.w = w) =>
              /\ batch[w] # <<>>
              /\ ev'.id = Head(batch[w]).id
              /\ batch'[w] = Tail(batch[w])
              /\ Cardinality({i \in DOMAIN ev'.hooks : ev'.hooks[i] \in OutcomeHookNames}) = 1
              /\ HookCount("OnSendFailure") <= 1
              /\ Emitted("OnSendFailure") <=>
                    \/ Emitted("OnRetry")
                    \/ Emitted("OnFail")
                    \/ Emitted("OnStoreError") /\ ev'.errOp \in {"retry", "fail"}
              /\ \A i \in DOMAIN ev'.hooks, j \in DOMAIN ev'.hooks :
                    (ev'.hooks[i] = "OnSendFailure" /\ ev'.hooks[j] \in OutcomeHookNames)
                        => i < j
        /\ batch'[w] # batch[w] =>
              /\ ev'.w = w
              /\ \/ ev'.kind = "dispatch"
                 \/ ev'.kind = "claim" /\ ~ev'.err /\ batch[w] = <<>>
        /\ (pc[w] \in InCycle /\ pc'[w] = "select") => batch'[w] = <<>>]_vars

\* A cycle of two envelopes: the first was sent and Store.Send failed for it,
\* reported by OnStoreError alone; the second is still to be dispatched.
C37_Witness ==
    /\ ev.kind = "dispatch"
    /\ ev.sendOk
    /\ ev.hooks = <<"OnStoreError">>
    /\ ev.errOp = "send"
    /\ Len(batch[ev.w]) = 1
    /\ pc[ev.w] = "dispatch"

\* C38: a Claim hands the relay each row it returned once; every iteration of
\* the loop calls Sender.Send once, for the first envelope not yet sent, and
\* for no other row, and whatever Sender.Send and the store call answered the
\* relay goes on with the envelopes after it, ending the cycle only when none
\* is left; nothing but an iteration of the loop calls the Sender or takes a
\* relay out of the loop.
C38_EachEnvelopeSentOnce ==
    [][/\ \A w \in Workers :
            /\ (FinishBy(w) /\ ~ev'.err) =>
                  /\ {batch'[w][i].id : i \in 1..Len(batch'[w])} = ev'.ids
                  /\ Len(batch'[w]) = Cardinality(ev'.ids)
            /\ (ev'.kind = "dispatch" /\ ev'.w = w) =>
                  /\ pc[w] = "dispatch"
                  /\ ev'.id = Head(batch[w]).id
                  /\ sends' = [sends EXCEPT ![ev'.id] = @ + 1]
                  /\ batch'[w] = Tail(batch[w])
                  /\ pc'[w] = IF Tail(batch[w]) = <<>> THEN "select" ELSE "dispatch"
            /\ pc[w] = "dispatch" =>
                  /\ batch[w] # <<>>
                  /\ (pc'[w] # "dispatch" \/ batch'[w] # batch[w]) =>
                        (ev'.kind = "dispatch" /\ ev'.w = w)
       /\ sends' # sends => ev'.kind = "dispatch"]_vars

\* Sender.Send failed for the first of a relay's two envelopes and so did the
\* store call after it; the relay is in the loop, the second envelope next.
C38_Witness ==
    /\ ev.kind = "dispatch"
    /\ ~ev.sendOk
    /\ ~ev.storeOk
    /\ sends[ev.id] = 1
    /\ pc[ev.w] = "dispatch"
    /\ Len(batch[ev.w]) = 1
    /\ sends[batch[ev.w][1].id] = 0

\* The last instant of the period the model follows.
Horizon == MaxTime + Overtime

Terminal(id) == table[id].status \in {"sent", "failed"}

\* The row waits for an instant that lies past the period followed.
PastHorizon(id) == clock = Horizon /\ table[id].next_retry_at > Horizon

\* Every committed row comes to status sent or failed, within the period
\* followed.
RowsSettle ==
    \A id \in Ids : (vis[id] = "committed") ~> (Terminal(id) \/ PastHorizon(id))

\* C39: with a store whose calls succeed and relays that keep running, every
\* committed row comes to a terminal status and no row stays pending, sending
\* or retry for ever; the status is sent if a dispatch of the row succeeded: a
\* Sender.Send that succeeds leaves the row sent, and a row that is sent stays
\* sent.
C39_EveryRowSettles ==
    /\ RowsSettle
    /\ [][\A id \in Ids :
            /\ (ev'.kind = "dispatch" /\ ev'.id = id /\ ev'.sendOk) =>
                    table'[id].status = "sent"
            /\ table[id].status = "sent" => table'[id].status = "sent"]_vars

\* C40: run on the same script, the relay with hooks and the relay without
\* have made the same calls on Store and Sender, in the same order and with the
\* same arguments, are at the same point of processOnce and have returned the
\* same; the relay without hooks has emitted nothing.
C40_HooksOnlyObserve ==
    twin # NoTwin =>
        /\ twin.hooked.calls = twin.plain.calls
        /\ twin.hooked.pos = twin.plain.pos
        /\ twin.hooked.i = twin.plain.i
        /\ twin.hooked.ret = twin.plain.ret
        /\ twin.hooked.now = twin.plain.now
        /\ twin.plain.hooks = <<>>

\* Both relays have returned from a cycle of two envelopes: Store.Send failed
\* for the first, reported by OnStoreError, and Sender.Send failed for the
\* second, which was retried.
C40_Witness ==
    /\ twin # NoTwin
    /\ twin.hooked.pos = "done"
    /\ twin.plain.pos = "done"
    /\ Len(twin.script.envs) = 2
    /\ twin.hooked.hooks = <<"OnClaim", "OnStoreError", "OnSendFailure", "OnRetry", "OnCycle">>
    /\ Len(twin.plain.calls) = 5
    /\ twin.plain.calls[5].op = "Store.Retry"

====
